---------------------------- MODULE Spec2Model ----------------------------
(***************************************************************************)
(* Model of the Hot Wheels market-value backend: the eBay service module   *)
(* (formatSearchUrl, parseEbayResponse, calculateMarketValue,              *)
(* searchHotWheels, generateMockData) and the GET /api/listings route.     *)
(*                                                                         *)
(* JavaScript numbers are IEEE-754 binary64 values: NaN, the infinities    *)
(* and the finite numbers.  A finite number is modelled exactly, as        *)
(* sign * mantissa * 2^exponent with an arbitrary precision mantissa, and  *)
(* every arithmetic operator and every conversion from decimal text rounds *)
(* its exact result as the hardware does: to 53 significant bits, ties to  *)
(* even, to a multiple of 2^-1074 below the normal range and to Infinity   *)
(* above the largest number.  -0 is not told from 0: the two compare equal *)
(* and are written alike as a string and as JSON, and differ only as a     *)
(* divisor, which no number of the program is.                             *)
(***************************************************************************)
EXTENDS Integers, Sequences, FiniteSets, TLC

(***************************************************************************)
(* An operator that uses an argument more than once binds it first, as in  *)
(* The({body : a \in {x}}): x is evaluated once, whatever expression the   *)
(* caller passes, and the body works on its value.                         *)
(***************************************************************************)
The(S) == CHOOSE r \in S : TRUE

(***************************************************************************)
(* Natural numbers of arbitrary size: little-endian sequences of limbs in  *)
(* 0 .. Base-1 without leading zero limbs (zero is the empty sequence).    *)
(***************************************************************************)
LimbBits == 15

Base == 2^LimbBits

Max(a, b) == The({IF x >= y THEN x ELSE y : x \in {a}, y \in {b}})

Min(a, b) == The({IF x <= y THEN x ELSE y : x \in {a}, y \in {b}})

\* a without leading zero limbs
BStrip(a) ==
  The({IF x = <<>> \/ x[Len(x)] # 0 THEN x
       ELSE The({IF nz = {} THEN <<>>
                 ELSE SubSeq(x, 1, CHOOSE i \in nz : \A j \in (i + 1)..Len(x) : x[j] = 0) :
                 nz \in {{i \in DOMAIN x : x[i] # 0}}}) :
       x \in {a}})

RECURSIVE BFromInt(_)
BFromInt(n) ==
  The({IF k = 0 THEN <<>> ELSE <<k % Base>> \o BFromInt(k \div Base) : k \in {n}})

RECURSIVE BToInt(_)
BToInt(a) ==
  The({IF x = <<>> THEN 0 ELSE x[1] + Base * BToInt(Tail(x)) : x \in {a}})

Limb(a, i) == The({IF k <= Len(a) THEN a[k] ELSE 0 : k \in {i}})

RECURSIVE IntBitLen(_)
IntBitLen(n) == The({IF k = 0 THEN 0 ELSE 1 + IntBitLen(k \div 2) : k \in {n}})

BBitLen(a) ==
  The({IF x = <<>> THEN 0 ELSE (Len(x) - 1) * LimbBits + IntBitLen(x[Len(x)]) :
       x \in {a}})

\* bit i of a, bit 0 the least significant
BBit(a, i) ==
  The({(Limb(a, k \div LimbBits + 1) \div 2^(k % LimbBits)) % 2 : k \in {i}})

\* the limbs lo..hi of a * f + b + c, for 0 <= f < Base and a carry c into
\* limb lo, and the carry out of limb hi: the lower half of the limbs, then
\* the upper half with the carry of the lower
RECURSIVE BMulAddRange(_, _, _, _, _, _)
BMulAddRange(a, f, b, lo, hi, c) ==
  The({IF i = j
       THEN The({[limbs |-> <<t % Base>>, carry |-> t \div Base] :
                 t \in {Limb(a, i) * f + Limb(b, i) + c}})
       ELSE The({The({[limbs |-> low.limbs \o high.limbs, carry |-> high.carry] :
                      high \in {BMulAddRange(a, f, b, (i + j) \div 2 + 1, j,
                                             low.carry)}}) :
                 low \in {BMulAddRange(a, f, b, i, (i + j) \div 2, c)}}) :
       i \in {lo}, j \in {hi}})

\* a * f + b for 0 <= f < Base
BMulAdd(a, f, b) ==
  The({The({IF n = 0 THEN <<>>
            ELSE The({BStrip(IF r.carry = 0 THEN r.limbs ELSE Append(r.limbs, r.carry)) :
                      r \in {BMulAddRange(x, g, y, 1, n, 0)}}) :
            n \in {Max(Len(x), Len(y))}}) :
       x \in {a}, g \in {f}, y \in {b}})

BAdd(a, b) == BMulAdd(a, 1, b)

BMulSmall(a, f) == BMulAdd(a, f, <<>>)

\* the limbs lo..hi of a - b - c, for a >= b and a borrow c from limb lo, and
\* the borrow from the limb above hi
RECURSIVE BSubRange(_, _, _, _, _)
BSubRange(a, b, lo, hi, c) ==
  The({IF i = j
       THEN The({IF t < 0 THEN [limbs |-> <<t + Base>>, borrow |-> 1]
                 ELSE [limbs |-> <<t>>, borrow |-> 0] :
                 t \in {Limb(a, i) - Limb(b, i) - c}})
       ELSE The({The({[limbs |-> low.limbs \o high.limbs, borrow |-> high.borrow] :
                      high \in {BSubRange(a, b, (i + j) \div 2 + 1, j, low.borrow)}}) :
                 low \in {BSubRange(a, b, i, (i + j) \div 2, c)}}) :
       i \in {lo}, j \in {hi}})

BSub(a, b) ==
  The({IF x = <<>> THEN <<>> ELSE BStrip(BSubRange(x, y, 1, Len(x), 0).limbs) :
       x \in {a}, y \in {b}})

\* -1, 0 or 1 as a < b, a = b, a > b: decided by the length, then by the
\* highest limb that differs
BCmp(a, b) ==
  The({IF Len(x) < Len(y) THEN -1
       ELSE IF Len(x) > Len(y) THEN 1
       ELSE The({IF d = {} THEN 0
                 ELSE The({IF x[k] < y[k] THEN -1 ELSE 1 :
                           k \in {CHOOSE i \in d :
                                    \A j \in (i + 1)..Len(x) : x[j] = y[j]}}) :
                 d \in {{i \in DOMAIN x : x[i] # y[i]}}}) :
       x \in {a}, y \in {b}})

BShlLimbs(a, n) == The({IF x = <<>> THEN x ELSE [i \in 1..n |-> 0] \o x : x \in {a}})

\* a times the number the limbs lo..hi of b make
RECURSIVE BMulRange(_, _, _, _)
BMulRange(a, b, lo, hi) ==
  The({IF i = j THEN BMulSmall(a, b[i])
       ELSE BAdd(BMulRange(a, b, i, (i + j) \div 2),
                 BShlLimbs(BMulRange(a, b, (i + j) \div 2 + 1, j),
                           (i + j) \div 2 + 1 - i)) :
       i \in {lo}, j \in {hi}})

BMul(a, b) ==
  The({IF x = <<>> \/ y = <<>> THEN <<>> ELSE BMulRange(x, y, 1, Len(y)) :
       x \in {a}, y \in {b}})

\* long division of the limbs lo..hi of a by n, 0 < n <= Base, r the
\* remainder carried from the limbs above: the upper half of the limbs,
\* then the lower half with the remainder of the upper
RECURSIVE BDivSmallRange(_, _, _, _, _)
BDivSmallRange(a, n, lo, hi, r) ==
  The({IF i = j
       THEN The({[q |-> <<t \div n>>, r |-> t % n] : t \in {r * Base + a[i]}})
       ELSE The({The({[q |-> low.q \o high.q, r |-> low.r] :
                      low \in {BDivSmallRange(a, n, i, (i + j) \div 2, high.r)}}) :
                 high \in {BDivSmallRange(a, n, (i + j) \div 2 + 1, j, r)}}) :
       i \in {lo}, j \in {hi}})

BDivSmall(a, n) ==
  The({IF x = <<>> THEN [q |-> <<>>, r |-> 0]
       ELSE The({[q |-> BStrip(d.q), r |-> d.r] :
                 d \in {BDivSmallRange(x, n, 1, Len(x), 0)}}) :
       x \in {a}})

BShl(a, k) ==
  The({BShlLimbs(BMulSmall(x, 2^(n % LimbBits)), n \div LimbBits) :
       x \in {a}, n \in {k}})

BShr(a, k) ==
  The({IF n \div LimbBits >= Len(x) THEN <<>>
       ELSE BDivSmall(SubSeq(x, n \div LimbBits + 1, Len(x)),
                      2^(n % LimbBits)).q :
       x \in {a}, n \in {k}})

\* the number of zero bits below the lowest one bit of a nonzero a
BTrailingZeros(a) ==
  The({The({(i - 1) * LimbBits
              + (CHOOSE t \in 0..(LimbBits - 1) :
                   x[i] % 2^(t + 1) # 0 /\ x[i] % 2^t = 0) :
            i \in {CHOOSE i \in DOMAIN x : x[i] # 0 /\ \A j \in 1..(i - 1) : x[j] = 0}}) :
       x \in {a}})

(***************************************************************************)
(* Binary64 numbers: NaN, Infinity(0) and Infinity(1) (that is -Infinity),  *)
(* and the finite numbers, [s, m, e] being (-1)^s * m * 2^e with m odd, or  *)
(* zero (m empty, s = 0, e = 0), so that equal numbers are equal records.  *)
(***************************************************************************)
Precision == 53

Zero == [s |-> 0, m |-> <<>>, e |-> 0]

\* the number that is not a number
NaN == [nan |-> TRUE]

\* Infinity and -Infinity
Infinity(s) == [inf |-> TRUE, s |-> s]

\* whether x is neither NaN nor an infinity
isFinite(x) == "m" \in DOMAIN x

FNorm(s, m, e) ==
  The({IF x = <<>> THEN Zero
       ELSE The({[s |-> s, m |-> BShr(x, tz), e |-> e + tz] :
                 tz \in {BTrailingZeros(x)}}) :
       x \in {m}})

\* m without its k lowest bits, k > 0, rounded to nearest, ties to even
RoundBits(m, k) ==
  The({IF BBit(m, k - 1) = 1 /\ (BShl(BShr(m, k - 1), k - 1) # m \/ BBit(q, 0) = 1)
       THEN BAdd(q, <<1>>) ELSE q :
       q \in {BShr(m, k)}})

\* the exact value (-1)^s * m * 2^e as a binary64 number: rounded to
\* Precision bits, or to a multiple of 2^-1074 when that is fewer bits, ties
\* to even; Infinity from 2^1024 on
FRound(s, m, e) ==
  The({The({The({IF r.m # <<>> /\ BBitLen(r.m) + r.e > 1024 THEN Infinity(s)
                 ELSE r :
                 r \in {FNorm(s, IF k > 0 THEN RoundBits(x, k) ELSE x,
                              e + Max(k, 0))}}) :
            k \in {Max(BBitLen(x) - Precision, -1074 - e)}}) :
       x \in {m}})

FromInt(n) ==
  The({FNorm(IF k < 0 THEN 1 ELSE 0, BFromInt(IF k < 0 THEN 0 - k ELSE k), 0) :
       k \in {n}})

FNeg(x) ==
  The({IF a = NaN \/ a = Zero THEN a ELSE [a EXCEPT !.s = 1 - a.s] : a \in {x}})

\* -1, 0, 1 comparing the magnitudes of the finite numbers x and y
FCmpMag(x, y) ==
  The({IF a.m = <<>> /\ b.m = <<>> THEN 0
       ELSE IF a.m = <<>> THEN -1
       ELSE IF b.m = <<>> THEN 1
       ELSE The({IF ha < hb THEN -1
                 ELSE IF ha > hb THEN 1
                 ELSE BCmp(BShl(a.m, a.e - lo), BShl(b.m, b.e - lo)) :
                 ha \in {BBitLen(a.m) + a.e}, hb \in {BBitLen(b.m) + b.e},
                 lo \in {Min(a.e, b.e)}}) :
       a \in {x}, b \in {y}})

\* -1, 0, 1 comparing x and y, neither of them NaN
FCmp(x, y) ==
  The({IF isFinite(a) /\ isFinite(b)
       THEN (IF a.s # b.s THEN (IF a.s = 1 THEN -1 ELSE 1)
             ELSE FCmpMag(IF a.s = 0 THEN a ELSE b, IF a.s = 0 THEN b ELSE a))
       ELSE The({IF ra < rb THEN -1 ELSE IF ra > rb THEN 1 ELSE 0 :
                 ra \in {IF isFinite(a) THEN 0 ELSE 1 - 2 * a.s},
                 rb \in {IF isFinite(b) THEN 0 ELSE 1 - 2 * b.s}}) :
       a \in {x}, b \in {y}})

\* x <= y: false when either is NaN
FLe(x, y) == The({a # NaN /\ b # NaN /\ FCmp(a, b) <= 0 : a \in {x}, b \in {y}})

\* x < y: false when either is NaN
FLt(x, y) == The({a # NaN /\ b # NaN /\ FCmp(a, b) < 0 : a \in {x}, b \in {y}})

\* x + y: the mantissas are brought to the lower exponent and added, or the
\* smaller taken from the larger when the signs differ
FAdd(x, y) ==
  The({IF a = NaN \/ b = NaN THEN NaN
       ELSE IF ~isFinite(a)
       THEN (IF ~isFinite(b) /\ b.s # a.s THEN NaN ELSE a)
       ELSE IF ~isFinite(b) THEN b
       ELSE IF a.m = <<>> THEN b
       ELSE IF b.m = <<>> THEN a
       ELSE The({The({FRound(IF c >= 0 THEN a.s ELSE b.s,
                             IF a.s = b.s THEN BAdd(ma, mb)
                             ELSE BSub(IF c >= 0 THEN ma ELSE mb,
                                       IF c >= 0 THEN mb ELSE ma),
                             Min(a.e, b.e)) :
                      c \in {BCmp(ma, mb)}}) :
                 ma \in {BShl(a.m, a.e - Min(a.e, b.e))},
                 mb \in {BShl(b.m, b.e - Min(a.e, b.e))}}) :
       a \in {x}, b \in {y}})

FSub(x, y) == FAdd(x, FNeg(y))

FMul(x, y) ==
  The({IF a = NaN \/ b = NaN THEN NaN
       ELSE IF ~isFinite(a) \/ ~isFinite(b)
       THEN (IF a = Zero \/ b = Zero THEN NaN ELSE Infinity((a.s + b.s) % 2))
       ELSE IF a.m = <<>> \/ b.m = <<>> THEN Zero
       ELSE FRound((a.s + b.s) % 2, BMul(a.m, b.m), a.e + b.e) :
       a \in {x}, b \in {y}})

GuardBits == 75

\* x / n for an integer 0 < n <= Base: the quotient to GuardBits extra bits,
\* a sticky bit appended when the division leaves a remainder, then rounded
FDivInt(x, n) ==
  The({IF ~isFinite(a) \/ a = Zero THEN a
       ELSE The({FRound(a.s, IF d.r = 0 THEN d.q ELSE BMulAdd(d.q, 2, <<1>>),
                        a.e - GuardBits - (IF d.r = 0 THEN 0 ELSE 1)) :
                 d \in {BDivSmall(BShl(a.m, GuardBits), n)}}) :
       a \in {x}})

\* Math.floor of a finite non-negative number, as an integer
FFloor(x) ==
  The({IF a.m = <<>> THEN 0
       ELSE BToInt(BShr(BShl(a.m, Max(a.e, 0)), Max(0 - a.e, 0))) :
       a \in {x}})

\* the number written as the decimal n / 10^k (a literal of the source)
Dec(n, k) == IF k = 0 THEN FromInt(n) ELSE FDivInt(FromInt(n), 10^k)

(***************************************************************************)
(* Numbers and decimals.  parseInt, parseFloat and the conversion of a     *)
(* number to a string go between a number and a decimal n * 10^k, exactly, *)
(* over the whole binary64 range.                                          *)
(***************************************************************************)
\* 10^k in limbs
RECURSIVE Pow10(_)
Pow10(k) ==
  The({IF j <= 4 THEN BFromInt(10^j)
       ELSE The({BMulSmall(BMul(h, h), IF j % 2 = 0 THEN 1 ELSE 10) :
                 h \in {Pow10(j \div 2)}}) :
       j \in {k}})

\* the quotient of a by 10^k and whether the division left a remainder:
\* a is divided by 10^(k \div 2), then the quotient by the rest
RECURSIVE DivPow10(_, _)
DivPow10(a, k) ==
  The({IF j <= 4
       THEN The({[q |-> d.q, inexact |-> d.r # 0] : d \in {BDivSmall(a, 10^j)}})
       ELSE The({The({[q |-> rest.q, inexact |-> half.inexact \/ rest.inexact] :
                      rest \in {DivPow10(half.q, j - j \div 2)}}) :
                 half \in {DivPow10(a, j \div 2)}}) :
       j \in {k}})

\* the number nearest to n * 10^k, n a natural number in limbs.  The digit
\* count of n is estimated from its bit length, to one digit; 10^312 and
\* above is Infinity, below 10^-326 is zero.  A quotient is taken to at
\* least GuardBits bits, with a sticky bit when the division is not exact.
Decimal(n, k) ==
  The({IF x = <<>> THEN Zero
       ELSE The({IF mag > 312 THEN Infinity(0)
                 ELSE IF mag < -326 THEN Zero
                 ELSE The({FRound(0, v.m, v.e) :
                           v \in {IF j >= 0 THEN [m |-> BMul(x, Pow10(j)), e |-> 0]
                                  ELSE The({The({[m |-> IF d.inexact
                                                        THEN BMulAdd(d.q, 2, <<1>>)
                                                        ELSE d.q,
                                                  e |-> 0 - guard
                                                          - (IF d.inexact THEN 1 ELSE 0)] :
                                                 d \in {DivPow10(BShl(x, guard),
                                                                 0 - j)}}) :
                                            guard \in
                                              {GuardBits
                                                 + Max(0, (3322 * (0 - j)) \div 1000 + 1
                                                            - BBitLen(x))}})}}) :
                 mag \in {((BBitLen(x) - 1) * 30103) \div 100000 + 1 + j}}) :
       x \in {n}, j \in {k}})

\* the k with 10^(k-1) <= |x| < 10^k for a finite x that is not zero: the
\* estimate from the bit length of x is right or one off
DecimalExponent(x) ==
  The({The({The({IF ~atLeast[est - 1] THEN est - 1
                 ELSE IF atLeast[est] THEN est + 1
                 ELSE est :
                 \* whether |x| >= 10^i
                 atLeast \in
                   {[i \in {est - 1, est} |->
                       BCmp(BShl(BMul(a.m, Pow10(Max(0 - i, 0))), Max(a.e, 0)),
                            BShl(Pow10(Max(i, 0)), Max(0 - a.e, 0))) >= 0]}}) :
            est \in {((BBitLen(a.m) + a.e - 1) * 30103) \div 100000 + 1}}) :
       a \in {x}})

\* the integer part of |x| * 10^k, and whether there is a fraction
ScaledFloor(x, k) ==
  The({The({The({The({[q |-> d.q,
                       inexact |-> d.inexact \/ BShl(q, Max(0 - a.e, 0)) # t] :
                      d \in {DivPow10(q, Max(0 - j, 0))}}) :
                 q \in {BShr(t, Max(0 - a.e, 0))}}) :
            t \in {BShl(BMul(a.m, Pow10(Max(j, 0))), Max(a.e, 0))}}) :
       a \in {x}, j \in {k}})

\* the integer of n digits (or 10^n) that written before 10^(k-n) is a
\* decimal nearest to which is |x|, the empty sequence when there is none: of
\* the two integers around |x| / 10^(k-n), the nearer first
Shortest(x, k, n) ==
  The({The({The({The({IF good # {}
                      THEN tried[CHOOSE i \in good : \A l \in good : i <= l]
                      ELSE <<>> :
                      good \in {{i \in DOMAIN tried :
                                   Decimal(tried[i], k - n) = [a EXCEPT !.s = 0]}}}) :
                 tried \in {The({IF d.r = 0 /\ ~t.inexact THEN <<d.q>>
                                 ELSE IF d.r > 5
                                         \/ (d.r = 5 /\ (t.inexact \/ BBit(d.q, 0) = 1))
                                 THEN <<above, d.q>>
                                 ELSE <<d.q, above>> :
                                 above \in {BAdd(d.q, <<1>>)}})}}) :
            d \in {BDivSmall(t.q, 10)}}) :
       t \in {ScaledFloor(x, n - k + 1)}, a \in {x}})

(***************************************************************************)
(* Values a JavaScript expression can have besides a number or an array.   *)
(***************************************************************************)
\* an absent array (null or undefined passed for Listing[])
NoListings == [i \in {0} |-> 0]

IsMissing(listings) == 0 \in DOMAIN listings

(***************************************************************************)
(* calculateMarketValue                                                    *)
(***************************************************************************)
\* whether the comparator (a, b) => a - b puts a before b: a - b is negative
\* (the sort takes a result of NaN for 0)
Before(a, b) == The({d # NaN /\ d.s = 1 : d \in {FSub(a, b)}})

\* the position, counted from 0, that the binary search among
\* work[left] .. work[right - 1] gives pivot: after the elements it does not
\* go before
RECURSIVE InsertionPoint(_, _, _, _)
InsertionPoint(work, pivot, left, right) ==
  The({IF l >= r THEN l
       ELSE The({InsertionPoint(work, pivot,
                                IF before THEN l ELSE l + (r - l) \div 2 + 1,
                                IF before THEN l + (r - l) \div 2 ELSE r) :
                 before \in {Before(pivot, work[l + (r - l) \div 2 + 1])}}) :
       l \in {left}, r \in {right}})

\* the binary insertion sort of work, its first start elements in order:
\* each element from there on is put where the binary search says
RECURSIVE BinaryInsertionSort(_, _)
BinaryInsertionSort(work, start) ==
  The({IF s >= Len(w) THEN w
       ELSE The({BinaryInsertionSort(SubSeq(w, 1, at) \o <<w[s + 1]>>
                                       \o SubSeq(w, at + 1, s)
                                       \o SubSeq(w, s + 2, Len(w)), s + 1) :
                 at \in {InsertionPoint(w, w[s + 1], 0, s)}}) :
       w \in {work}, s \in {start}})

\* prices.sort((a, b) => a - b) as the engine sorts an array of fewer than 64
\* elements: the run the array starts with is found (descending when the
\* second element goes before the first, and then reversed), and the elements
\* after the run are inserted into it.  The result is the ascending order
\* whenever no price is NaN.
SortPrices(prices) ==
  The({IF Len(ps) < 2 THEN ps
       ELSE The({The({BinaryInsertionSort(
                        IF before[2]
                        THEN [i \in 1..Len(ps) |->
                                IF i <= run THEN ps[run + 1 - i] ELSE ps[i]]
                        ELSE ps, run) :
                      run \in {CHOOSE n \in 2..Len(ps) :
                                 /\ \A i \in 3..n : before[i] = before[2]
                                 /\ n < Len(ps) => before[n + 1] # before[2]}}) :
                 before \in {[i \in 2..Len(ps) |-> Before(ps[i], ps[i - 1])]}}) :
       ps \in {prices}})

\* prices.reduce((acc, price) => acc + price, 0), left to right
RECURSIVE SumPrices(_, _, _)
SumPrices(prices, i, acc) ==
  The({IF k > Len(prices) THEN sum
       ELSE SumPrices(prices, k + 1, FAdd(sum, prices[k])) :
       k \in {i}, sum \in {acc}})

\* the filter that removes no outlier
FilterPricesKeepAll(prices, lowerBound, upperBound) == prices

\* prices.filter(price => price >= lowerBound && price <= upperBound)
FilterPrices(prices, lowerBound, upperBound) ==
  The({SelectSeq(prices, LAMBDA price : FLe(lo, price) /\ FLe(price, hi)) :
       lo \in {lowerBound}, hi \in {upperBound}})

\* the median taken as the upper central element whatever the count
MedianPriceUpperMiddle(prices, totalListings) == prices[totalListings \div 2 + 1]

\* the median of the sorted prices
MedianPrice(prices, totalListings) ==
  IF totalListings % 2 = 0
  THEN FDivInt(FAdd(prices[totalListings \div 2],
                    prices[totalListings \div 2 + 1]), 2)
  ELSE prices[totalListings \div 2 + 1]

\* the value recommended from the sorted prices and their median
RecommendedValue(prices, totalListings, medianPrice) ==
  LET q1Index == FFloor(FMul(FromInt(totalListings), Dec(25, 2)))
      q3Index == FFloor(FMul(FromInt(totalListings), Dec(75, 2)))
      q1 == prices[q1Index + 1]
      q3 == prices[q3Index + 1]
  IN  The({The({IF Len(filteredPrices) > 0
                THEN LET filteredSum == SumPrices(filteredPrices, 1, Zero)
                         filteredAvg == FDivInt(filteredSum, Len(filteredPrices))
                     IN  FAdd(FMul(filteredAvg, Dec(6, 1)),
                              FMul(medianPrice, Dec(4, 1)))
                ELSE medianPrice :
                filteredPrices \in
                  {FilterPrices(prices, FSub(q1, FMul(Dec(15, 1), iqr)),
                                FAdd(q3, FMul(Dec(15, 1), iqr)))}}) :
           iqr \in {FSub(q3, q1)}})

\* Math.random() * 10 - 5
PriceChange(r) == FSub(FMul(r, FromInt(10)), FromInt(5))

\* the statistics of no listings, had they been computed like the others:
\* the mean of no prices is 0 / 0
EmptyMarketValueDivided(query) ==
  [averagePrice |-> NaN, medianPrice |-> NaN, minPrice |-> NaN,
   maxPrice |-> NaN, recommendedValue |-> NaN, totalListings |-> 0,
   model |-> query]

\* the MarketValue returned when there are no listings
EmptyMarketValue(query) ==
  [averagePrice |-> Zero, medianPrice |-> Zero, minPrice |-> Zero,
   maxPrice |-> Zero, recommendedValue |-> Zero, totalListings |-> 0,
   model |-> query]

\* r is the value Math.random() returns for priceChange.  Arrays are 0-based in
\* the source and 1-based here.
calculateMarketValue(listings, query, r) ==
  IF IsMissing(listings) \/ Len(listings) = 0
  THEN EmptyMarketValue(query)
  ELSE
    The({The({[averagePrice |-> FDivInt(SumPrices(prices, 1, Zero), Len(prices)),
               medianPrice |-> medianPrice,
               minPrice |-> prices[1],
               maxPrice |-> prices[Len(prices)],
               recommendedValue |->
                 RecommendedValue(prices, Len(prices), medianPrice),
               totalListings |-> Len(prices),
               priceChange |-> PriceChange(r),
               model |-> query] :
              medianPrice \in {MedianPrice(prices, Len(prices))}}) :
         prices \in {SortPrices([i \in 1..Len(listings) |-> listings[i].price])}})

(***************************************************************************)
(* Strings.  Number-to-string conversion (template literals, String(v))    *)
(* prints the fewest digits that read back as the same number, as an       *)
(* integer or a decimal fraction when the decimal point is within 21       *)
(* digits to the right of the first digit and 6 to its left, with an       *)
(* exponent otherwise.                                                     *)
(***************************************************************************)
Contains(str, sub) ==
  \E i \in 1..(Len(str) - Len(sub) + 1) : SubSeq(str, i, i + Len(sub) - 1) = sub

\* the last k decimal digits of n
RECURSIVE PadDigits(_, _)
PadDigits(n, k) ==
  The({IF j = 0 THEN "" ELSE PadDigits(v \div 10, j - 1) \o ToString(v % 10) :
       v \in {n}, j \in {k}})

\* the natural number a in decimal
RECURSIVE BToDecimal(_)
BToDecimal(a) ==
  The({IF Len(x) <= 1 THEN ToString(BToInt(x))
       ELSE The({BToDecimal(d.q) \o PadDigits(d.r, 4) : d \in {BDivSmall(x, 10^4)}}) :
       x \in {a}})

\* the digits ds, without the zeros they end with, and the decimal point k
\* places after the first of them
PlaceDigits(ds, k) ==
  The({IF n <= k /\ k <= 21
       THEN SubSeq(ds, 1, n) \o SubSeq("000000000000000000000", 1, k - n)
       ELSE IF 0 < k /\ k <= 21
       THEN SubSeq(ds, 1, k) \o "." \o SubSeq(ds, k + 1, n)
       ELSE IF -6 < k /\ k <= 0
       THEN "0." \o SubSeq("000000", 1, 0 - k) \o SubSeq(ds, 1, n)
       ELSE SubSeq(ds, 1, 1) \o (IF n > 1 THEN "." \o SubSeq(ds, 2, n) ELSE "")
              \o (IF k - 1 < 0 THEN "e-" \o ToString(1 - k)
                  ELSE "e+" \o ToString(k - 1)) :
       n \in {CHOOSE i \in 1..Len(ds) :
                SubSeq(ds, i, i) # "0" /\ \A l \in (i + 1)..Len(ds) : SubSeq(ds, l, l) = "0"}})

NumberToString(x) ==
  The({IF a = NaN THEN "NaN"
       ELSE IF "inf" \in DOMAIN a THEN (IF a.s = 1 THEN "-" ELSE "") \o "Infinity"
       ELSE IF a.m = <<>> THEN "0"
       ELSE The({The({The({The({(IF a.s = 1 THEN "-" ELSE "")
                                  \o PlaceDigits(ds, k + Len(ds) - n) :
                                ds \in {BToDecimal(digits[n])}}) :
                           n \in {CHOOSE i \in DOMAIN digits :
                                    /\ digits[i] # <<>>
                                    /\ \A l \in 1..(i - 1) : digits[l] = <<>>}}) :
                      \* the digits for each count of them: 17 are always enough
                      digits \in {[i \in 1..17 |-> Shortest(a, k, i)]}}) :
                 k \in {DecimalExponent(a)}}) :
       a \in {x}})

Unreserved ==
  {"a", "b", "c", "d", "e", "f", "g", "h", "i", "j", "k", "l", "m", "n", "o", "p",
   "q", "r", "s", "t", "u", "v", "w", "x", "y", "z",
   "A", "B", "C", "D", "E", "F", "G", "H", "I", "J", "K", "L", "M", "N", "O", "P",
   "Q", "R", "S", "T", "U", "V", "W", "X", "Y", "Z",
   "0", "1", "2", "3", "4", "5", "6", "7", "8", "9",
   "-", "_", ".", "!", "~", "*", "'", "(", ")"}

\* the other printable ASCII characters, percent-encoded
PercentCode ==
  [c \in {" ", "#", "$", "%", "&", "+", ",", "/", ":", ";", "=", "?", "@"} |->
     CASE c = " " -> "%20" [] c = "#" -> "%23" [] c = "$" -> "%24"
       [] c = "%" -> "%25" [] c = "&" -> "%26" [] c = "+" -> "%2B"
       [] c = "," -> "%2C" [] c = "/" -> "%2F" [] c = ":" -> "%3A"
       [] c = ";" -> "%3B" [] c = "=" -> "%3D" [] c = "?" -> "%3F"
       [] c = "@" -> "%40"]

RECURSIVE encodeURIComponent(_)
encodeURIComponent(str) ==
  The({IF t = "" THEN ""
       ELSE (IF SubSeq(t, 1, 1) \in Unreserved THEN SubSeq(t, 1, 1)
             ELSE PercentCode[SubSeq(t, 1, 1)])
              \o encodeURIComponent(SubSeq(t, 2, Len(t))) :
       t \in {str}})

(***************************************************************************)
(* formatSearchUrl.  An optional property of params that is undefined is a *)
(* field the record does not have.  apiKey is the module's EBAY_API_KEY.   *)
(***************************************************************************)
Has(obj, key) == key \in DOMAIN obj

\* the record with the fields of full that keys names
Restrict(full, keys) == [k \in keys |-> full[k]]

\* condition && condition !== "all"
ConditionGiven(params) ==
  Has(params, "condition") /\ params.condition # "" /\ params.condition # "all"

\* the switch on condition; "" stands for null
ConditionValue(condition) ==
  CASE condition = "new" -> "1000"
    [] condition = "used" -> "3000"
    [] condition = "unopened" -> "1500"
    [] condition = "mint" -> "1750"
    [] OTHER -> ""

ConditionClause(params) ==
  IF ConditionGiven(params)
  THEN "&itemFilter(1).name=Condition"
         \o (IF ConditionValue(params.condition) # ""
             THEN "&itemFilter(1).value=" \o ConditionValue(params.condition)
             ELSE "")
  ELSE ""

PriceClause(name, filterIndex, price) ==
  "&itemFilter(" \o ToString(filterIndex) \o ").name=" \o name
    \o "&itemFilter(" \o ToString(filterIndex) \o ").value=" \o NumberToString(price)
    \o "&itemFilter(" \o ToString(filterIndex) \o ").paramName=Currency"
    \o "&itemFilter(" \o ToString(filterIndex) \o ").paramValue=USD"

PriceClauses(params) ==
  LET filterIndex == IF ConditionGiven(params) THEN 2 ELSE 1
  IN  (IF Has(params, "minPrice")
       THEN PriceClause("MinPrice", filterIndex, params.minPrice) ELSE "")
        \o (IF Has(params, "maxPrice")
            THEN PriceClause("MaxPrice",
                             IF Has(params, "minPrice") THEN filterIndex + 1
                             ELSE filterIndex,
                             params.maxPrice)
            ELSE "")

\* the switch on sort
SortOrder(sort) ==
  CASE sort = "price-low" -> "PricePlusShippingLowest"
    [] sort = "price-high" -> "PricePlusShippingHighest"
    [] sort = "date-new" -> "EndTimeSoonest"
    [] sort = "date-old" -> "EndTimeNewest"
    [] OTHER -> "BestMatch"

SortClause(params) ==
  IF Has(params, "sort") /\ params.sort # ""
  THEN "&sortOrder=" \o SortOrder(params.sort)
  ELSE ""

\* page || 1
PageOf(params) == IF Has(params, "page") /\ params.page # 0 THEN params.page ELSE 1

formatSearchUrl(params, apiKey) ==
  "https://svcs.ebay.com/services/search/FindingService/v1"
    \o "?OPERATION-NAME=findCompletedItems"
    \o "&SERVICE-VERSION=1.0.0"
    \o "&SECURITY-APPNAME=" \o apiKey
    \o "&RESPONSE-DATA-FORMAT=JSON"
    \o "&REST-PAYLOAD"
    \o "&keywords=" \o encodeURIComponent(params.query)
    \o "&categoryId=222"
    \o "&itemFilter(0).name=SoldItemsOnly"
    \o "&itemFilter(0).value=true"
    \o ConditionClause(params)
    \o PriceClauses(params)
    \o SortClause(params)
    \o "&paginationInput.entriesPerPage=" \o ToString(12)
    \o "&paginationInput.pageNumber=" \o ToString(PageOf(params))

(***************************************************************************)
(* parseInt and parseFloat.  Both skip leading white space (the ASCII      *)
(* characters among it: space, \t, \n, \v, \f and \r), read an optional    *)
(* sign and stop at the first character that cannot continue the number.   *)
(* The value of the digits is exact, then rounded once.                    *)
(***************************************************************************)
\* the character of str at position i, "" past its end
CharAt(str, i) == IF 1 <= i /\ i <= Len(str) THEN SubSeq(str, i, i) ELSE ""

\* the first position of str from i on whose character is not in chars
SkipChars(str, i, chars) ==
  The({CHOOSE j \in k..(Len(str) + 1) :
         /\ CharAt(str, j) \notin chars
         /\ \A l \in k..(j - 1) : CharAt(str, l) \in chars :
       k \in {i}})

\* the first position of str from i on that holds no white space: space,
\* tab, line feed, vertical tab, form feed, carriage return
SkipWhiteSpace(str, i) == SkipChars(str, i, {" ", "\t", "\n", "", "\f", "\r"})

Digits == [c \in {"0", "1", "2", "3", "4", "5", "6", "7", "8", "9"} |->
             CASE c = "0" -> 0 [] c = "1" -> 1 [] c = "2" -> 2 [] c = "3" -> 3
               [] c = "4" -> 4 [] c = "5" -> 5 [] c = "6" -> 6 [] c = "7" -> 7
               [] c = "8" -> 8 [] c = "9" -> 9]

\* the natural number the digits at the positions lo..hi of str write
RECURSIVE DigitsValue(_, _, _)
DigitsValue(str, lo, hi) ==
  The({IF i > j THEN <<>>
       ELSE IF i = j THEN BFromInt(Digits[CharAt(str, i)])
       ELSE BAdd(BMul(DigitsValue(str, i, (i + j) \div 2), Pow10(j - (i + j) \div 2)),
                 DigitsValue(str, (i + j) \div 2 + 1, j)) :
       i \in {lo}, j \in {hi}})

\* x with the sign s
WithSign(x, s) ==
  IF s = 0 \/ x = Zero \/ x = NaN THEN x ELSE [x EXCEPT !.s = 1]

\* parseInt(string, 10)
parseInt(string) ==
  The({The({The({The({IF end = start THEN NaN
                      ELSE WithSign(FRound(0, DigitsValue(str, start, end - 1), 0),
                                    IF CharAt(str, from) = "-" THEN 1 ELSE 0) :
                      end \in {SkipChars(str, start, DOMAIN Digits)}}) :
                 start \in {IF CharAt(str, from) \in {"+", "-"}
                            THEN from + 1 ELSE from}}) :
            from \in {SkipWhiteSpace(str, 1)}}) :
       str \in {string}})

\* the mantissa that starts at position p of str: the digits before and after
\* the point as one natural number, how many there are after the point, how
\* many in all, and the position after the mantissa
Mantissa(str, p) ==
  The({The({The({[n |-> DigitsValue(ds, 1, Len(ds)),
                  decimals |-> Max(end - point - 1, 0),
                  count |-> Len(ds),
                  next |-> end] :
                 ds \in {SubSeq(str, p, point - 1) \o SubSeq(str, point + 1, end - 1)}}) :
            end \in {IF CharAt(str, point) = "."
                     THEN SkipChars(str, point + 1, DOMAIN Digits) ELSE point}}) :
       point \in {SkipChars(str, p, DOMAIN Digits)}})

\* the exponent part at position q of str, 0 when there is none; an exponent
\* past 9999 counts as 9999
Exponent(str, q) ==
  IF CharAt(str, q) \in {"e", "E"}
  THEN The({The({IF end = from THEN 0
                 ELSE The({IF CharAt(str, q + 1) = "-" THEN 0 - n ELSE n :
                           n \in {The({IF BCmp(v, BFromInt(9999)) > 0 THEN 9999
                                       ELSE BToInt(v) :
                                       v \in {DigitsValue(str, from, end - 1)}})}}) :
                 end \in {SkipChars(str, from, DOMAIN Digits)}}) :
            from \in {IF CharAt(str, q + 1) \in {"+", "-"} THEN q + 2 ELSE q + 1}})
  ELSE 0

\* parseFloat(string)
parseFloat(string) ==
  The({The({The({IF SubSeq(str, Min(p, Len(str) + 1), Min(p + 7, Len(str)))
                      = "Infinity"
                 THEN Infinity(s)
                 ELSE The({IF m.count = 0 THEN NaN
                           ELSE WithSign(Decimal(m.n, Exponent(str, m.next)
                                                        - m.decimals), s) :
                           m \in {Mantissa(str, p)}}) :
                 p \in {IF CharAt(str, from) \in {"+", "-"} THEN from + 1 ELSE from},
                 s \in {IF CharAt(str, from) = "-" THEN 1 ELSE 0}}) :
            from \in {SkipWhiteSpace(str, 1)}}) :
       str \in {string}})

(***************************************************************************)
(* parseEbayResponse.  data is a JSON value: an object (its properties a   *)
(* record), an array (a sequence), a string, a number, a boolean or null.  *)
(* Reading a property gives a value or undefined, or throws a TypeError    *)
(* when it is read of undefined or null.                                   *)
(***************************************************************************)
JString(s) == [type |-> "string", s |-> s]

JArray(items) == [type |-> "array", items |-> items]

JObject(fields) == [type |-> "object", fields |-> fields]

JNumber(x) == [type |-> "number", x |-> x]

JBoolean(b) == [type |-> "boolean", b |-> b]

JNull == [type |-> "null"]

Value(v) == [kind |-> "value", v |-> v]

Undef == [kind |-> "undefined"]

Throw(message) == [kind |-> "throw", message |-> message]

\* the TypeError of reading the property key of undefined or null
TypeError(of, key) ==
  Throw("Cannot read properties of " \o of \o " (reading '" \o key \o "')")

\* v[key] for a JSON value v that is not null; index 0 is the key "0"
GetStep(v, key) ==
  CASE v.type = "object" ->
         IF key \in DOMAIN v.fields THEN Value(v.fields[key]) ELSE Undef
    [] v.type = "array" ->
         IF key = "0" /\ Len(v.items) >= 1 THEN Value(v.items[1]) ELSE Undef
    [] v.type = "string" ->
         IF key = "0" /\ v.s # "" THEN Value(JString(SubSeq(v.s, 1, 1))) ELSE Undef
    [] OTHER -> Undef

\* got[key], got what the expression before gave
Read(got, key) ==
  IF got.kind = "throw" THEN got
  ELSE IF got.kind = "undefined" THEN TypeError("undefined", key)
  ELSE IF got.v.type = "null" THEN TypeError("null", key)
  ELSE GetStep(got.v, key)

\* got?.[key]
ReadOptional(got, key) ==
  IF got.kind = "value" /\ got.v.type = "null" THEN Undef
  ELSE IF got.kind = "undefined" THEN Undef
  ELSE Read(got, key)

\* got.a.b.c for the path <<a, b, c>>
RECURSIVE ReadPath(_, _)
ReadPath(got, path) ==
  IF path = <<>> THEN got
  ELSE The({ReadPath(next, Tail(path)) : next \in {Read(got, Head(path))}})

\* whether what an expression gave is truthy
Truthy(got) ==
  /\ got.kind = "value"
  /\ got.v.type # "null"
  /\ got.v.type = "string" => got.v.s # ""
  /\ got.v.type = "number" => got.v.x # Zero /\ got.v.x # NaN
  /\ got.v.type = "boolean" => got.v.b

RECURSIVE Scalar(_), Join(_, _)
\* String(v) of a JSON value: an array is its elements joined
Scalar(v) ==
  CASE v.type = "string" -> v.s
    [] v.type = "number" -> NumberToString(v.x)
    [] v.type = "boolean" -> IF v.b THEN "true" ELSE "false"
    [] v.type = "null" -> "null"
    [] v.type = "object" -> "[object Object]"
    [] v.type = "array" -> Join(v.items, 1)

\* Array.prototype.join from element i on: "" for null
Join(items, i) ==
  IF i > Len(items) THEN ""
  ELSE (IF i > 1 THEN "," ELSE "")
         \o (IF items[i].type = "null" THEN "" ELSE Scalar(items[i]))
         \o Join(items, i + 1)

\* String(got): the string parseInt and parseFloat read
ToStr(got) == IF got.kind = "undefined" THEN "undefined" ELSE Scalar(got.v)

\* the value as it stands in the listing: a string as itself
Plain(v) ==
  CASE v.type = "string" -> v.s
    [] v.type = "number" -> v.x
    [] v.type = "boolean" -> v.b
    [] OTHER -> v

NoFields == [k \in {} |-> 0]

\* the property key with the value an expression gave, when it gave one
Field(key, got) == IF got.kind = "value" THEN key :> Plain(got.v) ELSE NoFields

\* the first of the expressions evaluated in order that throws, or none
RECURSIVE FirstThrow(_)
FirstThrow(gots) ==
  IF gots = <<>> THEN Undef
  ELSE IF Head(gots).kind = "throw" THEN Head(gots)
  ELSE FirstThrow(Tail(gots))

\* the callback of searchResult.item.map; item is what the array holds
ParseItem(item) ==
  LET id         == ReadPath(item, <<"itemId", "0">>)
      title      == ReadPath(item, <<"title", "0">>)
      condition  == ReadOptional(ReadOptional(ReadOptional(Read(item, "condition"),
                      "0"), "conditionDisplayName"), "0")
      priceStr   == ReadPath(item, <<"sellingStatus", "0", "convertedCurrentPrice",
                                     "0", "__value__">>)
      \* item.shippingInfo && item.shippingInfo[0].shippingServiceCost
      shipCost   == IF Truthy(Read(item, "shippingInfo"))
                    THEN ReadPath(item, <<"shippingInfo", "0", "shippingServiceCost">>)
                    ELSE Undef
      shipStr    == IF Truthy(shipCost)
                    THEN ReadPath(shipCost, <<"0", "__value__">>) ELSE shipCost
      imageUrl   == ReadOptional(Read(item, "galleryURL"), "0")
      listingUrl == ReadPath(item, <<"viewItemURL", "0">>)
      soldDate   == ReadPath(item, <<"listingInfo", "0", "endTime", "0">>)
      \* parseFloat of the price, and of the shipping cost when there is one
      amounts    == [key \in {"price"}
                                \cup (IF Truthy(shipCost) THEN {"shipping"} ELSE {}) |->
                       parseFloat(ToStr(IF key = "price" THEN priceStr ELSE shipStr))]
  IN  The({IF thrown.kind = "throw" THEN thrown
           ELSE Value(Field("id", id) @@ Field("title", title)
                        @@ [condition |-> IF Truthy(condition)
                                          THEN Plain(condition.v) ELSE "Unknown"]
                        @@ amounts
                        @@ (IF Truthy(imageUrl)
                            THEN [imageUrl |-> Plain(imageUrl.v)] ELSE NoFields)
                        @@ Field("listingUrl", listingUrl)
                        @@ Field("soldDate", soldDate)) :
           thrown \in {FirstThrow(<<id, title, condition, priceStr, shipStr,
                                    imageUrl, listingUrl, soldDate>>)}})

\* searchResult.item.map(callback): the listings, or the error thrown
MapItems(items) ==
  IF items.kind = "throw" THEN items
  ELSE IF items.kind = "undefined" THEN TypeError("undefined", "map")
  ELSE IF items.v.type = "null" THEN TypeError("null", "map")
  ELSE IF items.v.type # "array" THEN Throw("searchResult.item.map is not a function")
  ELSE The({The({IF thrown.kind = "throw" THEN thrown
                 ELSE Value([i \in 1..Len(parsed) |-> parsed[i].v]) :
                 thrown \in {FirstThrow(parsed)}}) :
            parsed \in {[i \in 1..Len(items.v.items) |->
                           ParseItem(Value(items.v.items[i]))]}})

\* the body of the try block: the listings, or the error thrown in it
ParseBody(data) ==
  The({The({IF count.kind = "throw" THEN count
            ELSE IF parseInt(ToStr(count)) = Zero THEN Value(<<>>)
            ELSE MapItems(Read(searchResult, "item")) :
            count \in {Read(searchResult, "@count")}}) :
       searchResult \in {ReadPath(Value(data), <<"findCompletedItemsResponse", "0",
                                                 "searchResult", "0">>)}})

\* try { ... } catch (error) { console.error(...); return []; }
parseEbayResponse(data) ==
  The({IF body.kind = "throw" THEN <<>> ELSE body.v : body \in {ParseBody(data)}})

(***************************************************************************)
(* searchHotWheels.  upstream is what fetch(url) and response.json() do:   *)
(* fetch rejects, or resolves to a response whose body decodes to data or  *)
(* fails to decode.  The result is the value the promise resolves to, or   *)
(* the error it rejects with.                                              *)
(***************************************************************************)
\* paginationOutput.name[0]
PaginationField(paginationOutput, name) ==
  ReadPath(paginationOutput, <<name, "0">>)

KeyNotConfigured ==
  "eBay API key is not configured. Please set the EBAY_API_KEY environment variable."

searchHotWheels(params, apiKey, upstream, r) ==
  IF apiKey = ""
  THEN Throw(KeyNotConfigured)
  ELSE IF upstream.kind = "reject" THEN Throw(upstream.message)
  ELSE IF ~upstream.ok
  THEN Throw("eBay API error: " \o ToString(upstream.status) \o " "
               \o upstream.statusText)
  ELSE IF upstream.json.kind = "throw" THEN upstream.json
  ELSE
    LET data == upstream.json.v
        paginationOutput ==
          ReadPath(Value(data), <<"findCompletedItemsResponse", "0",
                                  "paginationOutput", "0">>)
        \* the fields of paginationOutput in the order they are read
        read == [name \in {"totalPages", "totalEntries", "pageNumber"} |->
                   PaginationField(paginationOutput, name)]
        \* parseInt of each
        parsed == [name \in DOMAIN read |-> parseInt(ToStr(read[name]))]
    IN  The({The({IF thrown.kind = "throw" THEN thrown
                  ELSE Value([listings |-> listings,
                              totalListings |-> parsed.totalEntries,
                              currentPage |-> parsed.pageNumber,
                              totalPages |-> parsed.totalPages,
                              marketValue |->
                                calculateMarketValue(listings, params.query, r)]) :
                  thrown \in {FirstThrow(<<paginationOutput, read.totalPages,
                                           read.totalEntries, read.pageNumber>>)}}) :
             listings \in {parseEbayResponse(data)}})

(***************************************************************************)
(* generateMockData.  draws is the sequence of values Math.random()        *)
(* returns, repeated when the calls outnumber it; ids stand for the        *)
(* values of randomUUID(), soldDate for the date that many days before     *)
(* the call.                                                               *)
(***************************************************************************)
Draw(draws, k) == draws[((k - 1) % Len(draws)) + 1]

Conditions == <<"New", "Used", "Mint", "Unopened">>

Colors == <<"Red", "Blue", "Green", "Yellow", "Black", "Chrome", "White">>

\* Math.random() > 0.3
ShippingCharged(r) == FLt(Dec(3, 1), r)

\* the listing pushed for item i, Math.random() calls starting at call k; k2
\* is the call that draws the date
MockItem(params, draws, i, k, k2) ==
  [id |-> "uuid-" \o ToString(i),
   title |-> "Hot Wheels " \o params.query \o " "
               \o Colors[FFloor(FMul(Draw(draws, k), FromInt(Len(Colors)))) + 1]
               \o " Edition "
               \o ToString(FFloor(FAdd(FMul(Draw(draws, k2 + 1), FromInt(2022)),
                                       FromInt(1990)))),
   condition |-> Conditions[FFloor(FMul(Draw(draws, k + 1),
                                        FromInt(Len(Conditions)))) + 1],
   price |-> FAdd(FromInt(5), FMul(Draw(draws, k + 2), FromInt(30))),
   shipping |-> IF ShippingCharged(Draw(draws, k + 3))
                THEN FAdd(FromInt(2), FMul(Draw(draws, k + 4), FromInt(6)))
                ELSE Zero,
   listingUrl |-> "https://www.ebay.com/sch/i.html?_nkw="
                    \o encodeURIComponent(params.query)
                    \o "&LH_Sold=1&LH_Complete=1",
   soldDate |-> [daysBeforeNow |-> FFloor(FMul(Draw(draws, k2), FromInt(30)))]]

\* the body of the loop for item i: the listing, and the next Math.random() call
MockListing(params, draws, i, k) ==
  The({[listing |-> MockItem(params, draws, i, k, k2), next |-> k2 + 2] :
       k2 \in {IF ShippingCharged(Draw(draws, k + 3)) THEN k + 5 ELSE k + 4}})

\* the loop from item i on, having pushed listings
RECURSIVE MockListings(_, _, _, _, _, _)
MockListings(params, draws, i, itemCount, k, listings) ==
  The({IF j < itemCount
       THEN The({MockListings(params, draws, j + 1, itemCount, item.next,
                              Append(pushed, item.listing)) :
                 item \in {MockListing(params, draws, j, k)}})
       ELSE [listings |-> pushed, next |-> k] :
       j \in {i}, pushed \in {listings}})

\* Math.ceil(a / b) for positive integers
CeilDiv(a, b) == (a + b - 1) \div b

\* the item count of a page that is always full
ItemCountFullPage(currentPage, totalListings, itemsPerPage) == itemsPerPage

\* how many items to show on the current page
ItemCount(currentPage, totalListings, itemsPerPage) ==
  LET startIndex == (currentPage - 1) * itemsPerPage
      endIndex   == Min(startIndex + itemsPerPage, totalListings)
  IN  endIndex - startIndex

generateMockData(params, draws) ==
  LET totalListings == 47
      itemsPerPage  == 12
      totalPages    == CeilDiv(totalListings, itemsPerPage)
      currentPage   == PageOf(params)
      itemCount     == ItemCount(currentPage, totalListings, itemsPerPage)
  IN  The({[listings |-> loop.listings,
            totalListings |-> totalListings,
            currentPage |-> currentPage,
            totalPages |-> totalPages,
            marketValue |-> calculateMarketValue(loop.listings, params.query,
                                                 Draw(draws, loop.next))] :
           loop \in {MockListings(params, draws, 0, itemCount, 1, <<>>)}})

(***************************************************************************)
(* GET /api/listings.  query is req.query: the query-string parameters     *)
(* the request has, as strings.  searchParamsSchema is not part of these   *)
(* sources; it is taken from the specification's data model.               *)
(***************************************************************************)
\* the object the handler builds for searchParamsSchema.parse
RequestParams(query) ==
  Restrict(query, DOMAIN query \cap {"query", "condition", "sort"})
    @@ [key \in {k \in DOMAIN query \cap {"minPrice", "maxPrice"} : query[k] # ""} |->
          parseFloat(query[key])]
    @@ [page |-> IF Has(query, "page") /\ query.page # ""
                 THEN parseInt(query.page) ELSE FromInt(1)]

ConditionEnum == {"all", "new", "used", "unopened", "mint"}

SortEnum == {"price-low", "price-high", "date-new", "date-old"}



\* whether searchParamsSchema.parse accepts the object
searchParamsSchema(p) ==
  /\ Has(p, "query") /\ p.query # ""
  /\ Has(p, "condition") => p.condition \in ConditionEnum
  /\ Has(p, "minPrice") => p.minPrice # NaN
  /\ Has(p, "maxPrice") => p.maxPrice # NaN
  /\ (Has(p, "minPrice") /\ Has(p, "maxPrice") /\ p.minPrice # NaN
        /\ p.maxPrice # NaN) => FLe(p.minPrice, p.maxPrice)
  /\ Has(p, "sort") => p.sort \in SortEnum
  /\ isFinite(p.page) /\ p.page.s = 0 /\ p.page.m # <<>> /\ p.page.e >= 0

\* the parsed SearchParams: the page an integer
SearchParams(p) == [p EXCEPT !.page = FFloor(p.page)]

MockWarning ==
  "No eBay API key found. Using mock data instead. Set EBAY_API_KEY environment variable for real data."

\* the handler that takes the real-search path whatever the environment holds
GetListingsRealSearchOnly(query, env, apiKey, upstream, draws) ==
  The({IF ~searchParamsSchema(p)
       THEN [status |-> 400,
             body |-> [message |-> "Invalid search parameters",
                       details |-> "Validation error"]]
       ELSE The({IF result.kind = "throw"
                 THEN [status |-> 500, body |-> [message |-> result.message]]
                 ELSE [status |-> 200, body |-> result.v] :
                 result \in {searchHotWheels(SearchParams(p), apiKey, upstream,
                                             Draw(draws, 1))}}) :
       p \in {RequestParams(query)}})

\* the response of the handler; env is process.env.EBAY_API_KEY when the
\* request is handled, apiKey the service module's EBAY_API_KEY
GetListings(query, env, apiKey, upstream, draws) ==
  The({IF ~searchParamsSchema(p)
       THEN [status |-> 400,
             body |-> [message |-> "Invalid search parameters",
                       details |-> "Validation error"]]
       ELSE IF env # ""
       THEN The({IF result.kind = "throw"
                 THEN [status |-> 500, body |-> [message |-> result.message]]
                 ELSE [status |-> 200, body |-> result.v] :
                 result \in {searchHotWheels(SearchParams(p), apiKey, upstream,
                                             Draw(draws, 1))}})
       ELSE [status |-> 200, body |-> generateMockData(SearchParams(p), draws)] :
       p \in {RequestParams(query)}})

\* what the handler and the functions it calls wrote to the console on the
\* way to the response: the warning of the mock path; on the real-search
\* path the error parseEbayResponse caught and, the search having thrown,
\* the error searchHotWheels logs and rethrows and the one the handler logs
ListingsConsole(env, apiKey, upstream, response) ==
  IF response.status = 400 THEN <<"Error searching listings:">>
  ELSE IF env = "" THEN <<MockWarning>>
  ELSE (IF apiKey # "" /\ upstream.kind = "response" /\ upstream.ok
           /\ upstream.json.kind = "value"
           /\ ParseBody(upstream.json.v).kind = "throw"
        THEN <<"Error parsing eBay response:">> ELSE <<>>)
       \o (IF response.status = 500
           THEN <<"Error searching HotWheels:", "Error searching listings:">>
           ELSE <<>>)

\* GET /api/health
GetHealth == [status |-> 200, body |-> [status |-> "ok"]]

(***************************************************************************)
(* State.  The service keeps nothing between requests: the state is the    *)
(* credential in the environment, the copy of it the service module took   *)
(* when it was loaded, the requests whose handler is suspended at an       *)
(* await, and the invocation last completed with what it returned and      *)
(* wrote to the console.                                                   *)
(***************************************************************************)
VARIABLES
  processEnv,     \* process.env.EBAY_API_KEY ("" when unset)
  EBAY_API_KEY,   \* the service module's constant (Unloaded before its import)
  pending,        \* the requests in flight: handler suspended in searchHotWheels
  call,           \* the invocation at hand: operation and arguments
  ret,            \* what it returned: a value, or the HTTP response
  console,        \* the console lines it wrote
  pc              \* "call" before a function has run and "return" after;
                  \* for the server, "responded" after a response, else "idle"

vars == <<processEnv, EBAY_API_KEY, pending, call, ret, console, pc>>

None == [op |-> "none"]

Unloaded == "<not loaded>"

(***************************************************************************)
(* Inputs.                                                                 *)
(***************************************************************************)
MaxListings == 4

MaxMixed == 3

DrawPeriod == 3

MaxPage == 6

\* 0.1, 10, 15, 20, 30, 40
FinitePrices ==
  {Dec(1, 1), FromInt(10), FromInt(15), FromInt(20), FromInt(30), FromInt(40)}

\* what parseFloat makes of the text of a price: a finite number, NaN when the
\* text is no number, an infinity when it says so or is too large
Prices == FinitePrices \cup {NaN, Infinity(0), Infinity(1)}

Queries == {"camaro"}

\* the largest number below 1
AlmostOne == FSub(FromInt(1), [s |-> 0, m |-> <<1>>, e |-> 0 - Precision])

\* values of Math.random(): 0, 0.3, 0.5 and the largest it can return
RandomDraws == {Zero, Dec(3, 1), Dec(5, 1), AlmostOne}

RECURSIVE SeqsUpTo(_, _)
SeqsUpTo(S, n) ==
  IF n = 0 THEN {<<>>}
  ELSE LET shorter == SeqsUpTo(S, n - 1)
       IN  shorter \cup {Append(s, x) : s \in {t \in shorter : Len(t) = n - 1}, x \in S}

ListingOf(price) == [price |-> price]

\* the lists of up to MaxListings finite prices, the lists of up to MaxMixed
\* prices some of which are not finite, and the absent list
ListingLists ==
  {[i \in 1..Len(ps) |-> ListingOf(ps[i])] :
     ps \in SeqsUpTo(FinitePrices, MaxListings)
              \cup SeqsUpTo((Prices \ FinitePrices) \cup {FromInt(15), FromInt(20)},
                            MaxMixed)}
    \cup {NoListings}

DrawStreams == {d \in SeqsUpTo(RandomDraws, DrawPeriod) : Len(d) = DrawPeriod}



\* every record that has the required fields and any of the optional ones
WithOptional(full, required) ==
  {Restrict(full, required \cup opt) : opt \in SUBSET (DOMAIN full \ required)}

ParamsInputs ==
  UNION {WithOptional([query |-> q, condition |-> c, minPrice |-> FromInt(5),
                       maxPrice |-> Dec(2050, 2), sort |-> so, page |-> pg],
                      {"query"}) :
           q \in {"camaro", "twin mill"},
           c \in {"", "all", "new", "used", "unopened", "mint", "rare"},
           so \in {"", "price-low", "price-high", "date-new", "date-old", "relevance"},
           pg \in {0, 1, 3}}

MockInputs ==
  UNION {WithOptional([query |-> q, page |-> pg], {"query"}) :
           q \in Queries, pg \in 0..MaxPage}

(***************************************************************************)
(* calculateMarketValue, formatSearchUrl and generateMockData on their     *)
(* own: the arguments are chosen, then the function is applied.            *)
(***************************************************************************)
InitStats ==
  /\ processEnv = ""
  /\ EBAY_API_KEY = ""
  /\ call \in [op : {"calculateMarketValue"}, listings : ListingLists,
               query : Queries, random : {Dec(5, 1)}]
  /\ pending = <<>>
  /\ ret = None
  /\ console = <<>>
  /\ pc = "call"

CallCalculateMarketValue ==
  /\ pc = "call"
  /\ call.op = "calculateMarketValue"
  /\ ret' = calculateMarketValue(call.listings, call.query, call.random)
  /\ pc' = "return"
  /\ UNCHANGED <<processEnv, EBAY_API_KEY, pending, call, console>>

NextStats == CallCalculateMarketValue

SpecStats == InitStats /\ [][NextStats]_vars

InitUrl ==
  /\ processEnv = "APP-KEY"
  /\ EBAY_API_KEY = "APP-KEY"
  /\ call \in [op : {"formatSearchUrl"}, params : ParamsInputs]
  /\ pending = <<>>
  /\ ret = None
  /\ console = <<>>
  /\ pc = "call"

CallFormatSearchUrl ==
  /\ pc = "call"
  /\ call.op = "formatSearchUrl"
  /\ ret' = formatSearchUrl(call.params, EBAY_API_KEY)
  /\ pc' = "return"
  /\ UNCHANGED <<processEnv, EBAY_API_KEY, pending, call, console>>

NextUrl == CallFormatSearchUrl

SpecUrl == InitUrl /\ [][NextUrl]_vars

InitMock ==
  /\ processEnv = ""
  /\ EBAY_API_KEY = ""
  /\ call \in [op : {"generateMockData"}, params : MockInputs, draws : DrawStreams]
  /\ pending = <<>>
  /\ ret = None
  /\ console = <<>>
  /\ pc = "call"

CallGenerateMockData ==
  /\ pc = "call"
  /\ call.op = "generateMockData"
  /\ ret' = generateMockData(call.params, call.draws)
  /\ pc' = "return"
  /\ UNCHANGED <<processEnv, EBAY_API_KEY, pending, call, console>>

NextMock == CallGenerateMockData

SpecMock == InitMock /\ [][NextMock]_vars

(***************************************************************************)
(* The server.  The service module reads the credential once, when it is   *)
(* imported; the route handler reads it on every request.  Nothing in the  *)
(* program assigns it: the environment is what the process was started     *)
(* with.  The handler of GET /api/listings is asynchronous: on the         *)
(* real-search path it is suspended while fetch and then response.json()   *)
(* are pending, and other requests are handled meanwhile.  A request that  *)
(* is rejected or served from mock data is answered in the step that takes *)
(* it, no await of it waiting for anything outside the process.  call, ret *)
(* and console describe the response sent last; a step that sends a        *)
(* response is taken once the one before has been looked at (EndRequest),  *)
(* which changes nothing in the program.                                   *)
(***************************************************************************)
MaxInFlight == 2

EbayItem(id, price) ==
  JObject([itemId |-> JArray(<<JString(id)>>),
           title |-> JArray(<<JString("Hot Wheels " \o id)>>),
           condition |->
             JArray(<<JObject([conditionDisplayName |-> JArray(<<JString("New")>>)])>>),
           sellingStatus |->
             JArray(<<JObject([convertedCurrentPrice |->
                        JArray(<<JObject([__value__ |-> price])>>)])>>),
           shippingInfo |->
             JArray(<<JObject([shippingServiceCost |->
                        JArray(<<JObject([__value__ |-> JString("3.50")])>>)])>>),
           galleryURL |-> JArray(<<JString("https://i.ebayimg.com/" \o id \o ".jpg")>>),
           viewItemURL |-> JArray(<<JString("https://www.ebay.com/itm/" \o id)>>),
           listingInfo |->
             JArray(<<JObject([endTime |->
                        JArray(<<JString("2024-05-01T12:00:00.000Z")>>)])>>)])

Pagination ==
  JObject([pageNumber |-> JArray(<<JString("1")>>),
           entriesPerPage |-> JArray(<<JString("12")>>),
           totalPages |-> JArray(<<JString("4")>>),
           totalEntries |-> JArray(<<JString("47")>>)])

\* the object without the property key
Without(obj, key) == JObject(Restrict(obj.fields, DOMAIN obj.fields \ {key}))

SearchResult(count, items) ==
  JObject(("@count" :> count) @@ [item |-> items])

EbayResponse(inner) == JObject([findCompletedItemsResponse |-> JArray(<<inner>>)])

EbayData(searchResult, pagination) ==
  EbayResponse(JObject([searchResult |-> JArray(<<searchResult>>),
                        paginationOutput |-> JArray(<<pagination>>)]))

Items == <<EbayItem("101", JString("12.99")), EbayItem("102", JString("20"))>>

\* the expected payload; payloads whose numbers are written with a sign, white
\* space or an exponent, are JSON numbers (12.98765, 0.00001, 5000000000)
\* rather than strings, or are no number; and payloads with a part missing or
\* of another type
Payloads ==
  {EbayData(SearchResult(JString("2"), JArray(Items)), Pagination),
   EbayData(SearchResult(JString(" +2"),
                         JArray(<<EbayItem("103", JString("1.5e1")),
                                  EbayItem("104", JString(" +20"))>>)), Pagination),
   EbayData(SearchResult(JNumber(FromInt(2)),
                         JArray(<<EbayItem("105", JNumber(Decimal(BFromInt(1298765),
                                                                  -5))),
                                  EbayItem("106", JString("n/a"))>>)),
            JObject([Pagination.fields EXCEPT
                       !.totalEntries = JArray(<<JNumber(Decimal(<<5>>, 9))>>)])),
   EbayData(SearchResult(JNumber(Decimal(<<1>>, -5)), JArray(Items)), Pagination),
   EbayData(SearchResult(JString("1"), JArray(<<EbayItem("107", JString("Infinity"))>>)),
            Pagination),
   EbayData(Without(SearchResult(JString("0"), JArray(<<>>)), "item"), Pagination),
   JObject(NoFields),
   JNull,
   JObject([findCompletedItemsResponse |-> JArray(<<>>)]),
   EbayResponse(JObject([paginationOutput |-> JArray(<<Pagination>>)])),
   EbayResponse(JObject([searchResult |-> JArray(<<>>),
                         paginationOutput |-> JArray(<<Pagination>>)])),
   EbayData(Without(SearchResult(JString("2"), JArray(Items)), "@count"), Pagination),
   EbayData(Without(SearchResult(JString("2"), JArray(Items)), "item"), Pagination),
   EbayData(SearchResult(JString("1"), JObject(NoFields)), Pagination),
   EbayData(SearchResult(JString("1"), JArray(<<JNull>>)), Pagination),
   EbayData(SearchResult(JString("2"), JArray(<<Items[1], Without(Items[2], "itemId")>>)),
            Pagination),
   EbayData(SearchResult(JString("2"), JArray(<<Without(Items[1], "sellingStatus"),
                                       Items[2]>>)), Pagination),
   EbayData(SearchResult(JString("1"), JArray(<<JObject(Restrict(Items[1].fields,
              {"itemId", "title", "sellingStatus", "viewItemURL",
               "listingInfo"}))>>)), Pagination),
   EbayData(SearchResult(JString("1"), JArray(<<JObject([Items[1].fields EXCEPT
              !.shippingInfo = JArray(<<>>)])>>)), Pagination),
   EbayResponse(JObject([searchResult |->
                           JArray(<<SearchResult(JString("2"), JArray(Items))>>)])),
   EbayResponse(JObject([searchResult |->
                           JArray(<<SearchResult(JString("2"), JArray(Items))>>),
                         paginationOutput |-> JArray(<<>>)])),
   EbayData(SearchResult(JString("2"), JArray(Items)), Without(Pagination, "totalPages")),
   EbayData(SearchResult(JString("2"), JArray(Items)),
            JObject([Pagination.fields EXCEPT !.totalPages = JArray(<<>>)]))}

\* what response.json() settles with: a payload, or the error of a body that
\* is not JSON
Bodies ==
  {Value(data) : data \in Payloads}
    \cup {Throw("Unexpected token < in JSON at position 0")}

\* the response fetch resolved with and what its body settled with
Response(ok, status, statusText, json) ==
  [kind |-> "response", ok |-> ok, status |-> status, statusText |-> statusText,
   json |-> json]

\* fetch was not called
NoUpstream == [kind |-> "none"]

\* the ways fetch fails the request: it rejects, or resolves with a response
\* that is not ok
FetchFailures ==
  {[kind |-> "reject", message |-> "fetch failed"],
   Response(FALSE, 500, "Internal Server Error", Undef)}

RequestQueries ==
  {[query |-> "camaro"],
   [query |-> "camaro", condition |-> "new", minPrice |-> " 5",
    maxPrice |-> "2.05e1", sort |-> "price-low", page |-> "+5"],
   NoFields,
   [query |-> "camaro", page |-> "abc"],
   [query |-> "camaro", page |-> "0"],
   [query |-> "camaro", condition |-> "rare"],
   [query |-> "camaro", minPrice |-> "30", maxPrice |-> "20"]}

RequestDraws == {[i \in 1..DrawPeriod |-> r] : r \in RandomDraws}

\* the values of Math.random() on the real-search path, which calls it once
SearchDraws == {[i \in 1..DrawPeriod |-> r] : r \in {Zero, AlmostOne}}

Credentials == {"", "APP-KEY"}

Init ==
  /\ processEnv \in Credentials
  /\ EBAY_API_KEY = Unloaded
  /\ pending = <<>>
  /\ call = None
  /\ ret = None
  /\ console = <<>>
  /\ pc = "idle"

\* the import of the service module: EBAY_API_KEY = process.env.EBAY_API_KEY || ""
LoadService ==
  /\ EBAY_API_KEY = Unloaded
  /\ EBAY_API_KEY' = processEnv
  /\ UNCHANGED <<processEnv, pending, call, ret, console, pc>>



\* the handler suspended at an await of searchHotWheels: env is its constant
\* EBAY_API_KEY, url the argument of fetch, stage the call it waits for
Suspended(query, env, apiKey) ==
  [query |-> query, env |-> env,
   url |-> formatSearchUrl(SearchParams(RequestParams(query)), apiKey),
   stage |-> "fetch"]

\* the sequence without its element i
Remove(seq, i) == SubSeq(seq, 1, i - 1) \o SubSeq(seq, i + 1, Len(seq))

\* res.json or res.status(...).json: the handler runs from its last await, or
\* from its start, to its response
Respond(query, env, upstream, draws) ==
  /\ call' = [op |-> "GET /api/listings", query |-> query, upstream |-> upstream,
              draws |-> draws]
  /\ \E response \in {GetListings(query, env, EBAY_API_KEY, upstream, draws)} :
       /\ ret' = response
       /\ console' = ListingsConsole(env, EBAY_API_KEY, upstream, response)
  /\ pc' = "responded"

\* a request arrives: it is answered, or, the parameters valid, the path the
\* real search and the key of searchHotWheels there, its handler is suspended
\* at fetch
HandleListings ==
  \E query \in RequestQueries :
    /\ pc = "idle"
    /\ EBAY_API_KEY # Unloaded
    /\ IF /\ searchParamsSchema(RequestParams(query))
          /\ processEnv # ""
          /\ EBAY_API_KEY # ""
       THEN /\ Len(pending) < MaxInFlight
            /\ pending' = Append(pending, Suspended(query, processEnv, EBAY_API_KEY))
            /\ UNCHANGED <<processEnv, EBAY_API_KEY, call, ret, console, pc>>
       ELSE \E draws \in RequestDraws :
              /\ Respond(query, processEnv, NoUpstream, draws)
              /\ UNCHANGED <<processEnv, EBAY_API_KEY, pending>>

\* fetch rejects, or resolves with a response that is not ok: the request is
\* answered with the error
FetchFails ==
  \E i \in DOMAIN pending, upstream \in FetchFailures, draws \in SearchDraws :
    /\ pc = "idle"
    /\ pending[i].stage = "fetch"
    /\ Respond(pending[i].query, pending[i].env, upstream, draws)
    /\ pending' = Remove(pending, i)
    /\ UNCHANGED <<processEnv, EBAY_API_KEY>>

\* fetch resolves with an ok response: the handler is suspended at
\* response.json()
FetchSucceeds ==
  \E i \in DOMAIN pending :
    /\ pending[i].stage = "fetch"
    /\ pending' = [pending EXCEPT ![i].stage = "json"]
    /\ UNCHANGED <<processEnv, EBAY_API_KEY, call, ret, console, pc>>

\* response.json() settles: the request is answered
BodySettles ==
  \E i \in DOMAIN pending, json \in Bodies, draws \in SearchDraws :
    /\ pc = "idle"
    /\ pending[i].stage = "json"
    /\ Respond(pending[i].query, pending[i].env, Response(TRUE, 200, "OK", json),
               draws)
    /\ pending' = Remove(pending, i)
    /\ UNCHANGED <<processEnv, EBAY_API_KEY>>

HandleHealth ==
  /\ pc = "idle"
  /\ EBAY_API_KEY # Unloaded
  /\ call' = [op |-> "GET /api/health"]
  /\ ret' = GetHealth
  /\ console' = <<>>
  /\ pc' = "responded"
  /\ UNCHANGED <<processEnv, EBAY_API_KEY, pending>>

\* the response has been looked at; the next step can be taken
EndRequest ==
  /\ pc = "responded"
  /\ call' = None
  /\ ret' = None
  /\ console' = <<>>
  /\ pc' = "idle"
  /\ UNCHANGED <<processEnv, EBAY_API_KEY, pending>>

Next ==
  \/ LoadService
  \/ HandleListings
  \/ FetchFails
  \/ FetchSucceeds
  \/ BodySettles
  \/ HandleHealth
  \/ EndRequest

Spec == Init /\ [][Next]_vars

(***************************************************************************)
(* Properties of calculateMarketValue, checked under SpecStats.            *)
(***************************************************************************)
\* calculateMarketValue has returned
StatsReturned == pc = "return" /\ call.op = "calculateMarketValue"

\* the listing collection passed is a non-empty list
NonEmptyInput == ~IsMissing(call.listings) /\ Len(call.listings) > 0

\* the prices passed, in the order they were passed
InputPrices == [i \in 1..Len(call.listings) |-> call.listings[i].price]

\* how many of the prices are below x, and how many are x or below
CountBelow(prices, x) == Cardinality({i \in DOMAIN prices : FLt(prices[i], x)})

CountAtMost(prices, x) == Cardinality({i \in DOMAIN prices : FLe(prices[i], x)})

\* the k-th smallest of the prices, k from 1
KthSmallest(prices, k) ==
  CHOOSE x \in {prices[i] : i \in DOMAIN prices} :
    CountBelow(prices, x) < k /\ k <= CountAtMost(prices, x)

\* the k-th of the prices in ascending order, k from 1; when one of them is
\* NaN no order of them is ascending, and the order meant is the one the sort
\* leaves them in
Ascending(prices, k) ==
  IF \A i \in DOMAIN prices : prices[i] # NaN
  THEN KthSmallest(prices, k)
  ELSE SortPrices(prices)[k]

\* the median of a non-empty list of prices
StandardMedian(prices) ==
  IF Len(prices) % 2 = 1
  THEN Ascending(prices, Len(prices) \div 2 + 1)
  ELSE FDivInt(FAdd(Ascending(prices, Len(prices) \div 2),
                    Ascending(prices, Len(prices) \div 2 + 1)), 2)

\* the prices as a list of listings
ListingsOf(prices) == [i \in 1..Len(prices) |-> ListingOf(prices[i])]

\* every price passed is a finite number
FiniteInput == \A i \in DOMAIN InputPrices : isFinite(InputPrices[i])

\* C1: for every non-empty list of listings with finite prices, minPrice and
\* maxPrice are the smallest and the largest input price, totalListings is the
\* input count, and minPrice <= medianPrice <= maxPrice and
\* minPrice <= averagePrice <= maxPrice.
C1_StatisticsWithinMinMax ==
  StatsReturned /\ NonEmptyInput /\ FiniteInput =>
    /\ ret.minPrice = KthSmallest(InputPrices, 1)
    /\ ret.maxPrice = KthSmallest(InputPrices, Len(InputPrices))
    /\ ret.totalListings = Len(InputPrices)
    /\ FLe(ret.minPrice, ret.medianPrice) /\ FLe(ret.medianPrice, ret.maxPrice)
    /\ FLe(ret.minPrice, ret.averagePrice) /\ FLe(ret.averagePrice, ret.maxPrice)

\* C2: with an empty or a missing listing collection calculateMarketValue
\* returns a MarketValue whose averagePrice, medianPrice, minPrice, maxPrice and
\* recommendedValue are 0, whose totalListings is 0 and whose model is the query
\* passed in; nothing is divided, so no field is NaN.
C2_EmptyInputAllZero ==
  StatsReturned /\ ~NonEmptyInput =>
    /\ \A field \in {"averagePrice", "medianPrice", "minPrice", "maxPrice",
                     "recommendedValue"} : ret[field] = Zero
    /\ ret.totalListings = 0
    /\ ret.model = call.query

\* an empty list has been passed and the all-zero MarketValue returned
C2_Witness ==
  /\ StatsReturned
  /\ call.listings = <<>>
  /\ ret.averagePrice = Zero
  /\ ret.totalListings = 0

\* C3: for every non-empty price list, in any input order, medianPrice is the
\* median of the ascending-sorted prices: the central element when the count is
\* odd, the mean of the two central elements when it is even; [10,20,30] gives
\* 20, [10,20,30,40] gives 25 and [15] gives 15.
C3_MedianIsStandardMedian ==
  StatsReturned /\ NonEmptyInput =>
    /\ ret.medianPrice = StandardMedian(InputPrices)
    /\ InputPrices = <<FromInt(10), FromInt(20), FromInt(30)>>
         => ret.medianPrice = FromInt(20)
    /\ InputPrices = <<FromInt(10), FromInt(20), FromInt(30), FromInt(40)>>
         => ret.medianPrice = FromInt(25)
    /\ InputPrices = <<FromInt(15)>> => ret.medianPrice = FromInt(15)

\* an even number of prices, passed out of order, whose median is the mean of
\* the two central ones
C3_Witness ==
  /\ StatsReturned
  /\ call.listings = ListingsOf(<<FromInt(30), FromInt(10), FromInt(40), FromInt(20)>>)
  /\ ret.medianPrice = FromInt(25)

\* the prices of the list that are inside the band [q1 - 1.5 iqr, q3 + 1.5 iqr],
\* q1 and q3 the elements of the sorted prices at floor(n/4) and floor(3n/4)
InsideBand(prices) ==
  The({The({SelectSeq(prices, LAMBDA price : FLe(lower, price) /\ FLe(price, upper)) :
            lower \in {FSub(q1, FMul(Dec(15, 1), FSub(q3, q1)))},
            upper \in {FAdd(q3, FMul(Dec(15, 1), FSub(q3, q1)))}}) :
       q1 \in {Ascending(prices, Len(prices) \div 4 + 1)},
       q3 \in {Ascending(prices, (3 * Len(prices)) \div 4 + 1)}})

\* the sum of the prices of a list from its k-th smallest on, taken in
\* ascending order, added to acc
RECURSIVE AscendingSum(_, _, _)
AscendingSum(prices, k, acc) ==
  IF k > Len(prices) THEN acc
  ELSE AscendingSum(prices, k + 1, FAdd(acc, KthSmallest(prices, k)))

\* 0.6 F + 0.4 M, F the mean of the retained prices and M the median
WeightedValue(retained, median) ==
  FAdd(FMul(FDivInt(AscendingSum(retained, 1, Zero), Len(retained)), Dec(6, 1)),
       FMul(median, Dec(4, 1)))

\* C4, as it holds: for every non-empty price list recommendedValue is
\* 0.6 F + 0.4 M whenever the filter on [q1 - 1.5 iqr, q3 + 1.5 iqr] retains
\* a price (F the mean of the retained prices, M the median) and M whenever it
\* retains none; [15] gives 15.  M is also the value when every retained price
\* is M.
C4_RecommendedValueWeighting ==
  StatsReturned /\ NonEmptyInput =>
    /\ \A retained \in {InsideBand(InputPrices)} :
         /\ Len(retained) > 0
              => ret.recommendedValue = WeightedValue(retained, ret.medianPrice)
         /\ Len(retained) = 0 => ret.recommendedValue = ret.medianPrice
    /\ InputPrices = <<FromInt(15)>> => ret.recommendedValue = FromInt(15)

\* a price that is no number has been passed: the band is NaN, the filter
\* retains no price and the value recommended is the median
C4_Witness ==
  /\ StatsReturned
  /\ NonEmptyInput
  /\ \E i \in DOMAIN InputPrices : InputPrices[i] = NaN
  /\ Len(InsideBand(InputPrices)) = 0
  /\ ret.recommendedValue = ret.medianPrice

\* C4, as stated: for every non-empty price list recommendedValue is
\* 0.6 F + 0.4 M whenever the filter retains a price, and is M exactly when
\* the filter retains none; [15] gives 15.
C4_MedianExactlyWhenNoneRetained ==
  StatsReturned /\ NonEmptyInput =>
    /\ \A retained \in {InsideBand(InputPrices)} :
         /\ Len(retained) > 0
              => ret.recommendedValue = WeightedValue(retained, ret.medianPrice)
         /\ ret.recommendedValue = ret.medianPrice <=> Len(retained) = 0
    /\ InputPrices = <<FromInt(15)>> => ret.recommendedValue = FromInt(15)

(***************************************************************************)
(* Properties of formatSearchUrl, checked under SpecUrl.                   *)
(***************************************************************************)
\* formatSearchUrl has returned
UrlReturned == pc = "return" /\ call.op = "formatSearchUrl"

\* the provider's code for each condition that has one
ConditionCodes ==
  [new |-> "1000", used |-> "3000", unopened |-> "1500", mint |-> "1750"]

\* the provider's sort token for each sort mode that has one
SortTokens ==
  ("price-low" :> "PricePlusShippingLowest")
    @@ ("price-high" :> "PricePlusShippingHighest")
    @@ ("date-new" :> "EndTimeSoonest")
    @@ ("date-old" :> "EndTimeNewest")

\* C5: a condition that has a provider code is sent as filter 1 with that code
\* ("new" as 1000); a condition that is "all", absent or unrecognized adds no
\* filter named Condition, and the price filters take the slots from 1 on.
C5_ConditionFilterClause ==
  UrlReturned =>
    IF Has(call.params, "condition")
         /\ call.params.condition \in DOMAIN ConditionCodes
    THEN Contains(ret, "&itemFilter(1).name=Condition&itemFilter(1).value="
                         \o ConditionCodes[call.params.condition] \o "&")
    ELSE /\ ~Contains(ret, "Condition")
         /\ Has(call.params, "minPrice")
              => Contains(ret, "&itemFilter(1).name=MinPrice")
         /\ Has(call.params, "maxPrice")
              => Contains(ret, "&itemFilter("
                                 \o (IF Has(call.params, "minPrice") THEN "2" ELSE "1")
                                 \o ").name=MaxPrice")

\* C6: the URL carries the provider's token of the sort mode when the sort is
\* one of the four named modes, and sortOrder=BestMatch in every other case,
\* an unrecognized sort and an absent sort alike.
C6_SortOrderToken ==
  UrlReturned =>
    Contains(ret, "&sortOrder="
                    \o (IF Has(call.params, "sort")
                             /\ call.params.sort \in DOMAIN SortTokens
                        THEN SortTokens[call.params.sort]
                        ELSE "BestMatch")
                    \o "&")

(***************************************************************************)
(* Properties of generateMockData, checked under SpecMock.                 *)
(***************************************************************************)
\* generateMockData has returned
MockReturned == pc = "return" /\ call.op = "generateMockData"

\* C7: for a page p >= 1 generateMockData returns max(0, min(12, 47 - 12 (p - 1)))
\* listings with totalListings 47, totalPages 4 and currentPage p; a page past
\* the last one gives no listings and the all-zero MarketValue.
C7_MockPageSlice ==
  MockReturned /\ Has(call.params, "page") /\ call.params.page >= 1 =>
    /\ Len(ret.listings) = Max(0, Min(12, 47 - 12 * (call.params.page - 1)))
    /\ ret.totalListings = 47
    /\ ret.totalPages = 4
    /\ ret.currentPage = call.params.page
    /\ call.params.page >= 5 =>
         /\ ret.listings = <<>>
         /\ \A field \in {"averagePrice", "medianPrice", "minPrice", "maxPrice",
                          "recommendedValue"} : ret.marketValue[field] = Zero
         /\ ret.marketValue.totalListings = 0

\* page 5 has been asked for and answered with no listings
C7_Witness ==
  /\ MockReturned
  /\ Has(call.params, "page") /\ call.params.page = 5
  /\ ret.listings = <<>>
  /\ ret.currentPage = 5
  /\ ret.marketValue.totalListings = 0

\* C10: every synthetic listing has a model year within 1990..2022 at the end
\* of its title, a price within [5, 35], a shipping cost that is none (absent
\* or zero) or within [2, 8], a sold date within the past 30 days and no image
\* URL, whatever the random draws.
C10_MockListingRanges ==
  MockReturned =>
    \A i \in DOMAIN ret.listings :
      LET listing == ret.listings[i]
      IN  /\ SubSeq(listing.title, Len(listing.title) - 3, Len(listing.title))
               \in {ToString(year) : year \in 1990..2022}
          /\ FLe(FromInt(5), listing.price) /\ FLe(listing.price, FromInt(35))
          /\ \/ ~Has(listing, "shipping")
             \/ listing.shipping = Zero
             \/ FLe(FromInt(2), listing.shipping) /\ FLe(listing.shipping, FromInt(8))
          /\ listing.soldDate.daysBeforeNow \in 0..30
          /\ ~Has(listing, "imageUrl")

(***************************************************************************)
(* Properties of the listings endpoint, checked under Spec.                *)
(***************************************************************************)
\* a listings request has been answered
ListingsResponded == pc = "responded" /\ call.op = "GET /api/listings"

\* the request was valid and was answered on the real-search path
RealSearchAnswered ==
  /\ ListingsResponded
  /\ ret.status # 400
  /\ \A i \in DOMAIN console : console[i] # MockWarning

\* C8: on the real-search path, after a successful HTTP status and a JSON
\* body, no payload shape is answered with 500; when a part of the expected
\* structure is missing the listing list is empty.
C8_PayloadShapeNeverAnError ==
  /\ RealSearchAnswered
  /\ EBAY_API_KEY # ""
  /\ call.upstream.kind = "response"
  /\ call.upstream.ok
  /\ call.upstream.json.kind = "value"
  => /\ ret.status = 200
     /\ ParseBody(call.upstream.json.v).kind = "throw" => ret.body.listings = <<>>

\* C9: a listings request with valid parameters is answered on the
\* real-search path (fetch is called, no mock warning is written) exactly when
\* the credential is configured, and on the mock path otherwise: then the
\* warning is written and the answer is 200 with the mock ListingsResponse
\* (47 listings in 4 pages).  No answer is the real-search path's "API key is
\* not configured" error, the service module and the route handler having
\* read the same credential.
C9_CredentialRouting ==
  ListingsResponded /\ ret.status # 400 =>
    /\ ~(ret.status = 500 /\ ret.body.message = KeyNotConfigured)
    /\ processEnv # "" <=> call.upstream # NoUpstream
    /\ processEnv # "" <=> \A i \in DOMAIN console : console[i] # MockWarning
    /\ processEnv = ""
         => /\ ret.status = 200
            /\ ret.body.totalListings = 47
            /\ ret.body.totalPages = 4

\* no credential is configured and a valid request has been answered with the
\* first page of the mock listings
C9_Witness ==
  /\ ListingsResponded
  /\ processEnv = ""
  /\ EBAY_API_KEY = ""
  /\ ret.status = 200
  /\ console = <<MockWarning>>
  /\ Len(ret.body.listings) = 12

====
